---- MODULE Spec2Model ----
\* A model of txtSearchPro (src/search.py): the TextSearchEngine, its
\* thread pool of search_file tasks, the as_completed aggregation loop of
\* run_search and the interactive loop of main.
\*
\* Text is a sequence of one-character strings.  File contents and the
\* compiled pattern are sequences of bytes; an ASCII byte is written as its
\* character, the two bytes of the UTF-8 encoding of "é" are "xC3" and "xA9".
EXTENDS Integers, Sequences, FiniteSets, Bags, TLC

\* ------------------------------------------------------------------ bounds
MaxRuns == 2          \* runs of run_search per behaviour of main
CpuCount == 1         \* multiprocessing.cpu_count() of the machine
MaxContentLen == 4    \* length of the enumerated file contents (scanner)
MaxPad == 52          \* padding before/after a match (scanner contexts)
MaxCpus == 40         \* CPU counts for which MAX_WORKERS is evaluated

\* ------------------------------------------------------- program constants
CONTEXT_BYTES == 50
SAFE_QUERY_LEN == 50
WORKER_CEILING == 32

Min(a, b) == IF a < b THEN a ELSE b
Max(a, b) == IF a > b THEN a ELSE b

\* min(multiprocessing.cpu_count() * 2, 32) on a machine with c CPUs
MaxWorkersFor(c) == Min(c * 2, WORKER_CEILING)

MAX_WORKERS == MaxWorkersFor(CpuCount)

\* ------------------------------------------------------------ text helpers
Whitespace == {" ", "\n", "\t"}

RECURSIVE LStrip(_)
LStrip(s) ==
    IF s = <<>> THEN <<>>
    ELSE IF Head(s) \in Whitespace THEN LStrip(Tail(s)) ELSE s

RECURSIVE RStrip(_)
RStrip(s) ==
    IF s = <<>> THEN <<>>
    ELSE IF s[Len(s)] \in Whitespace THEN RStrip(SubSeq(s, 1, Len(s) - 1)) ELSE s

\* a query taken as typed, without strip()
NoStrip(s) == s

\* str.strip()
Strip(s) == RStrip(LStrip(s))

\* str.encode('utf-8') of one character
EncodeChar(c) == IF c = "é" THEN <<"xC3", "xA9">> ELSE <<c>>

RECURSIVE Encode(_)
Encode(s) == IF s = <<>> THEN <<>> ELSE EncodeChar(Head(s)) \o Encode(Tail(s))

\* bytes.decode('utf-8', errors='replace'): a lone lead or continuation byte
\* becomes the replacement character
RECURSIVE Decode(_)
Decode(b) ==
    IF b = <<>> THEN <<>>
    ELSE IF Head(b) = "xC3" /\ Len(b) >= 2 /\ b[2] = "xA9"
         THEN <<"é">> \o Decode(Tail(Tail(b)))
    ELSE IF Head(b) \in {"xC3", "xA9"} THEN <<"REPL">> \o Decode(Tail(b))
    ELSE <<Head(b)>> \o Decode(Tail(b))

\* re.escape(query).encode('utf-8'): the pattern matches exactly the bytes
\* of the query
Pattern(q) == Encode(q)

\* a scan that resumes one byte after the start of a match
RECURSIVE FindIterOverlapping(_, _, _)
FindIterOverlapping(mm, pat, i) ==
    IF i + Len(pat) - 1 > Len(mm) THEN <<>>
    ELSE IF SubSeq(mm, i, i + Len(pat) - 1) = pat
         THEN <<i - 1>> \o FindIterOverlapping(mm, pat, i + 1)
    ELSE FindIterOverlapping(mm, pat, i + 1)

\* re.finditer(pattern, mm): start offsets (0-based) of the matches, scanning
\* from 1-based index i.  After a match the scan resumes at its end (one
\* byte further for an empty match).
RECURSIVE FindIterFrom(_, _, _)
FindIterFrom(mm, pat, i) ==
    IF i + Len(pat) - 1 > Len(mm) THEN <<>>
    ELSE IF SubSeq(mm, i, i + Len(pat) - 1) = pat
         THEN <<i - 1>> \o FindIterFrom(mm, pat, i + Max(Len(pat), 1))
    ELSE FindIterFrom(mm, pat, i + 1)

FindIter(mm, pat) == FindIterFrom(mm, pat, 1)

\* a[lo:hi] of Python: a negative index counts from the end, both indexes
\* are clipped to the length
PyIndex(n, k) == IF k < 0 THEN Max(0, n + k) ELSE Min(k, n)
PySlice(a, lo, hi) == SubSeq(a, PyIndex(Len(a), lo) + 1, PyIndex(Len(a), hi))

\* the window without the max(0, ...) of line 99
WindowUnclipped(mm, s, e) == PySlice(mm, s - CONTEXT_BYTES, e + CONTEXT_BYTES)

\* mm[max(0, match.start()-50):match.end()+50]
Window(mm, s, e) == PySlice(mm, Max(0, s - CONTEXT_BYTES), e + CONTEXT_BYTES)

\* the match dictionary appended for a match at offset s
MatchRecord(path, mm, pat, s) ==
    [file |-> path,
     context |-> Strip(Decode(Window(mm, s, s + Len(pat)))),
     position |-> s]

Matches(path, mm, pat) ==
    LET pos == FindIter(mm, pat)
    IN [k \in 1..Len(pos) |-> MatchRecord(path, mm, pat, pos[k])]

\* the loop of line 98-104 raises while handling a match after
\* f.raises_after matches were appended (-1: it never raises)
RaisesMidScan(f, q) ==
    /\ f.raises_after >= 0
    /\ Len(Matches(f.path, f.content, Pattern(q))) > f.raises_after

\* the local list matches when the exception is caught
Appended(f, q) == SubSeq(Matches(f.path, f.content, Pattern(q)), 1, f.raises_after)

\* search_file returning the matches appended so far together with the error
SearchFileKeepingPartial(f, q) ==
    IF ~f.readable
    THEN [path |-> f.path, matches |-> <<>>, error |-> "Permission denied"]
    ELSE IF f.content = <<>>
    THEN [path |-> f.path, matches |-> <<>>, error |-> "cannot mmap an empty file"]
    ELSE IF RaisesMidScan(f, q)
    THEN [path |-> f.path, matches |-> Appended(f, q), error |-> "Input/output error"]
    ELSE [path |-> f.path, matches |-> Matches(f.path, f.content, Pattern(q)), error |-> ""]

\* search_file on a file: (path, matches, error).  f.readable = FALSE is an
\* open() that raises; mmap of a 0-byte file raises ValueError; an exception
\* inside the loop returns the empty list of line 107, not the local list.
SearchFile(f, q) ==
    IF ~f.readable
    THEN [path |-> f.path, matches |-> <<>>, error |-> "Permission denied"]
    ELSE IF f.content = <<>>
    THEN [path |-> f.path, matches |-> <<>>, error |-> "cannot mmap an empty file"]
    ELSE IF RaisesMidScan(f, q)
    THEN [path |-> f.path, matches |-> <<>>, error |-> "Input/output error"]
    ELSE [path |-> f.path, matches |-> Matches(f.path, f.content, Pattern(q)), error |-> ""]

\* ------------------------------------------------------------- file system
FooBarFoo == <<"f","o","o"," ","b","a","r"," ","f","o","o">>
NothingHere == <<"n","o","t","h","i","n","g"," ","h","e","r","e">>

\* the files on disk: ext is the end of the name, probe = os.path.getsize
\* succeeds, readable = open() succeeds, raises_after = number of matches
\* handled before a read of the file raises (-1: never)
FileA ==
    [path |-> "a.txt", ext |-> ".txt", content |-> FooBarFoo, probe |-> TRUE, readable |-> TRUE,
     raises_after |-> -1]
FileB ==
    [path |-> "b.TXT", ext |-> ".TXT", content |-> NothingHere, probe |-> TRUE, readable |-> TRUE,
     raises_after |-> -1]
FileC ==
    [path |-> "c.txt", ext |-> ".txt", content |-> <<"f","o","o">>, probe |-> TRUE, readable |-> FALSE,
     raises_after |-> -1]
FileD ==
    [path |-> "d.txt", ext |-> ".txt", content |-> <<"o">>, probe |-> TRUE, readable |-> FALSE,
     raises_after |-> -1]
FileE ==
    [path |-> "e.txt", ext |-> ".txt", content |-> <<>>, probe |-> TRUE, readable |-> TRUE,
     raises_after |-> -1]
FileF ==
    [path |-> "f.txt", ext |-> ".txt", content |-> <<"f","o","o"," ","f","o","o">>, probe |-> TRUE, readable |-> TRUE,
     raises_after |-> 1]
FileG ==
    [path |-> "g.txt", ext |-> ".txt", content |-> <<"o">>, probe |-> FALSE, readable |-> FALSE,
     raises_after |-> -1]
FileH ==
    [path |-> "h.log", ext |-> ".log", content |-> <<"f","o","o">>, probe |-> TRUE, readable |-> TRUE,
     raises_after |-> -1]

\* os.walk(folder): the files of each folder in walk order
DefaultFolder == "db"
Walk(folder) ==
    CASE folder = "db" -> <<FileA, FileB, FileC>>
      [] folder = "locked" -> <<FileC, FileD>>
      [] folder = "mixed" -> <<FileH, FileG, FileE, FileF, FileA>>
      [] OTHER -> <<FileH>>

FolderInputs == {"", "locked", "mixed", "logs"}

\* what the user may type at the query prompt
QueryInputs == {<<>>, <<" ", "\t">>, <<" ", "f", "o", "o", " ">>, <<"o">>}

\* str.lower() of a file-name ending
Lower(ext) == IF ext = ".TXT" THEN ".txt" ELSE ext

\* get_folder_stats with the try around the whole walk: the first failing
\* size probe ends the enumeration
RECURSIVE FileListAborting(_)
FileListAborting(fs) ==
    IF fs = <<>> THEN <<>>
    ELSE IF Lower(Head(fs).ext) # ".txt" THEN FileListAborting(Tail(fs))
    ELSE IF Head(fs).probe
         THEN <<[path |-> Head(fs).path, size |-> Len(Head(fs).content)]>>
                 \o FileListAborting(Tail(fs))
    ELSE <<>>

\* get_folder_stats: the targets (path, size) in walk order; a file whose
\* name does not end in .txt or whose size probe raises is left out
RECURSIVE FileList(_)
FileList(fs) ==
    IF fs = <<>> THEN <<>>
    ELSE IF Lower(Head(fs).ext) = ".txt" /\ Head(fs).probe
         THEN <<[path |-> Head(fs).path, size |-> Len(Head(fs).content)]>> \o FileList(Tail(fs))
    ELSE FileList(Tail(fs))

RECURSIVE TotalSize(_)
TotalSize(fl) == IF fl = <<>> THEN 0 ELSE Head(fl).size + TotalSize(Tail(fl))

\* the file on disk behind a target path
AllFiles == {FileA, FileB, FileC, FileD, FileE, FileF, FileG, FileH}
OnDisk(path) == CHOOSE f \in AllFiles : f.path = path

\* the queries a run can hold: what can be typed, stripped
RunQueries == {Strip(t) : t \in QueryInputs}

\* search_file on every file on disk for every query of a run
Scanned ==
    [p \in {f.path : f \in AllFiles}, q \in RunQueries |-> SearchFile(OnDisk(p), q)]

\* re.sub(r'[\\/*?:"<>|]', '_', query)[:50]
UnsafeChars == {"\\", "/", "*", "?", ":", "\"", "<", ">", "|"}
SafeQueryUntruncated(q) ==
    [k \in 1..Len(q) |-> IF q[k] \in UnsafeChars THEN "_" ELSE q[k]]

SafeQuery(q) ==
    LET sub == [k \in 1..Len(q) |-> IF q[k] \in UnsafeChars THEN "_" ELSE q[k]]
    IN SubSeq(sub, 1, Min(Len(sub), SAFE_QUERY_LEN))

\* ------------------------------------------------------------------- state
VARIABLES
    mpc,          \* position of the main thread
    stats,        \* self.stats
    query,        \* self.query (<<>> stands for None or the empty string)
    files,        \* the target list of the current run
    submitted,    \* number of futures created by the submit loop
    tstate,       \* per future: "unsub", "queued", "running", "storing", "done"
    tres,         \* per future: the outcome tuple of search_file
    tmp,          \* per future: the value of stats['errors'] it loaded
    order,        \* futures yielded by as_completed so far, in order
    all_matches,  \* the local list of run_search
    handed,       \* arguments save_results was called with in this run
    result_file,  \* result files written in this run
    reported,     \* statistics summaries printed in this run
    interrupted,  \* a KeyboardInterrupt was raised in the main thread
    exit_code,    \* process exit status (-1 while running)
    runs,         \* calls of run_search so far
    run_base,     \* stats when the current run started
    at_interrupt, \* all_matches and stats when the interrupt was raised
    late,         \* futures that started executing after the interrupt
    raw_query,    \* what input() returned at the query prompt of this run
    folder,       \* the folder given to run_search (<<>> before the first run)
    console,      \* kinds of notices printed since the screen was cleared
    scan_in,      \* scanner harness: the (file, query) given to search_file
    scan_out      \* scanner harness: the outcomes it returned

vars == <<mpc, stats, query, files, submitted, tstate, tres, tmp, order,
          all_matches, handed, result_file, reported, interrupted, exit_code,
          runs, run_base, at_interrupt, late, raw_query, folder,
          console, scan_in, scan_out>>

scanVars == <<scan_in, scan_out>>
poolVars == <<submitted, tstate, tres, tmp>>
ghostVars == <<run_base, at_interrupt, late, raw_query>>

\* the futures of the current executor
Tasks == DOMAIN tstate
Running == {i \in Tasks : tstate[i] \in {"running", "storing"}}
Consumed == {order[k] : k \in 1..Len(order)}
InPool == {"submit", "as_completed", "l164", "l166"}

\* TextSearchEngine.__init__ up to setup_results_dir
EngineInit ==
    /\ mpc = "setup"
    /\ stats = [files_processed |-> 0, matches_found |-> 0, total_size |-> 0, errors |-> 0]
    /\ query = <<>>
    /\ files = <<>>
    /\ submitted = 0
    /\ tstate = <<>>
    /\ tres = <<>>
    /\ tmp = <<>>
    /\ order = <<>>
    /\ all_matches = <<>>
    /\ handed = <<>>
    /\ result_file = <<>>
    /\ reported = <<>>
    /\ interrupted = FALSE
    /\ exit_code = -1
    /\ runs = 0
    /\ run_base = stats
    /\ at_interrupt = <<>>
    /\ late = {}
    /\ raw_query = <<>>
    /\ folder = <<>>
    /\ console = {}

Init ==
    /\ EngineInit
    /\ scan_in = <<>>
    /\ scan_out = <<>>

\* ------------------------------------------------------------ main thread
\* setup_results_dir printing the error without sys.exit(1)
SetupResultsDirContinuing ==
    /\ mpc = "setup"
    /\ \E ok \in BOOLEAN :
         IF ok THEN mpc' = "folder_prompt" /\ exit_code' = exit_code /\ console' = console
         ELSE mpc' = "folder_prompt" /\ exit_code' = exit_code /\ console' = console \cup {"setup_error"}
    /\ UNCHANGED <<folder,
                   stats, query, files, order, all_matches, handed, result_file,
                   reported, interrupted, runs, poolVars, ghostVars, scanVars>>

\* setup_results_dir: makedirs/chmod/test write succeed, or sys.exit(1)
SetupResultsDir ==
    /\ mpc = "setup"
    /\ \E ok \in BOOLEAN :
         IF ok THEN mpc' = "folder_prompt" /\ exit_code' = exit_code /\ console' = console
         ELSE mpc' = "exited" /\ exit_code' = 1 /\ console' = console \cup {"setup_error"}
    /\ UNCHANGED <<folder,
                   stats, query, files, order, all_matches, handed, result_file,
                   reported, interrupted, runs, poolVars, ghostVars, scanVars>>

\* run_search without the test of line 135
AfterFolderUnchecked(fl) == "query_prompt"

\* line 135-137: if not files: the notice is printed and run_search returns
AfterFolder(fl) == IF fl = <<>> THEN "continue_prompt" ELSE "query_prompt"

\* main line 216-218 and run_search up to the query prompt: the folder is
\* read, print_header clears the screen, get_folder_stats stores total_size
\* and returns the targets; with no target run_search returns
InputFolder ==
    /\ mpc = "folder_prompt"
    /\ \E typed \in FolderInputs :
         LET dir == IF typed = "" THEN DefaultFolder ELSE typed
             fl == FileList(Walk(dir))
         IN /\ folder' = <<dir>>
            /\ files' = fl
            /\ stats' = [stats EXCEPT !.total_size = TotalSize(fl)]
            /\ mpc' = AfterFolder(fl)
            /\ console' = IF AfterFolder(fl) = "continue_prompt" THEN {"no_files"} ELSE {}
    /\ runs' = runs + 1
    /\ run_base' = stats
    /\ order' = <<>>
    /\ all_matches' = <<>>
    /\ handed' = <<>>
    /\ result_file' = <<>>
    /\ reported' = <<>>
    /\ submitted' = 0
    /\ tstate' = <<>>
    /\ tres' = <<>>
    /\ tmp' = <<>>
    /\ raw_query' = <<>>
    /\ UNCHANGED <<query, interrupted, exit_code, at_interrupt, late, scanVars>>

\* run_search line 144-152: the query is read and stripped; an empty query
\* returns, otherwise the executor is created
InputQuery ==
    /\ mpc = "query_prompt"
    /\ \E typed \in QueryInputs :
         /\ raw_query' = <<typed>>
         /\ query' = Strip(typed)
         /\ mpc' = IF Strip(typed) = <<>> THEN "continue_prompt" ELSE "submit"
         /\ console' = IF Strip(typed) = <<>> THEN console \cup {"empty_query"} ELSE console
    /\ all_matches' = <<>>
    /\ submitted' = 0
    /\ tstate' = [i \in 1..Len(files) |-> "unsub"]
    /\ tres' = [i \in 1..Len(files) |-> [path |-> files[i].path, matches |-> <<>>, error |-> ""]]
    /\ tmp' = [i \in 1..Len(files) |-> 0]
    /\ UNCHANGED <<folder,
                   stats, files, order, handed, result_file, reported,
                   interrupted, exit_code, runs, run_base, at_interrupt, late,
                   scanVars>>

\* line 153: executor.submit(self.search_file, file) for the next file
Submit ==
    /\ mpc = "submit"
    /\ submitted < Len(files)
    /\ submitted' = submitted + 1
    /\ tstate' = [tstate EXCEPT ![submitted + 1] = "queued"]
    /\ mpc' = IF submitted + 1 = Len(files) THEN "as_completed" ELSE "submit"
    /\ UNCHANGED <<folder, console,
                   stats, query, files, tres, tmp, order, all_matches, handed,
                   result_file, reported, interrupted, exit_code, runs,
                   ghostVars, scanVars>>

\* line 155-159: as_completed yields a finished future; its result is
\* unpacked and files_processed is incremented
NextCompleted(i) ==
    /\ mpc = "as_completed"
    /\ tstate[i] = "done"
    /\ i \notin Consumed
    /\ order' = Append(order, i)
    /\ stats' = [stats EXCEPT !.files_processed = @ + 1]
    /\ mpc' = "l164"
    /\ UNCHANGED <<folder, console,
                   query, files, poolVars, all_matches, handed, result_file,
                   reported, interrupted, exit_code, runs, ghostVars, scanVars>>

\* the outcome the aggregation loop is working on
Current == tres[order[Len(order)]]

\* line 161-165: the error is printed; if matches: matches_found += len(matches)
AddMatchesFound ==
    /\ mpc = "l164"
    /\ console' = IF Current.error # "" THEN console \cup {"warning"} ELSE console
    /\ IF Current.matches # <<>>
       THEN /\ stats' = [stats EXCEPT !.matches_found = @ + Len(Current.matches)]
            /\ mpc' = "l166"
       ELSE /\ stats' = stats
            /\ mpc' = "as_completed"
    /\ UNCHANGED <<folder,
                   query, files, poolVars, order, all_matches, handed,
                   result_file, reported, interrupted, exit_code, runs,
                   ghostVars, scanVars>>

\* line 166 written as an assignment: all_matches = matches
AssignAllMatches ==
    /\ mpc = "l166"
    /\ all_matches' = Current.matches
    /\ mpc' = "as_completed"
    /\ UNCHANGED <<folder, console,
                   stats, query, files, poolVars, order, handed, result_file,
                   reported, interrupted, exit_code, runs, ghostVars, scanVars>>

\* line 166: all_matches.extend(matches)
ExtendAllMatches ==
    /\ mpc = "l166"
    /\ all_matches' = all_matches \o Current.matches
    /\ mpc' = "as_completed"
    /\ UNCHANGED <<folder, console,
                   stats, query, files, poolVars, order, handed, result_file,
                   reported, interrupted, exit_code, runs, ghostVars, scanVars>>

\* as_completed is exhausted and the with block is left: shutdown(wait=True)
\* finds every future done
ExitPool ==
    /\ mpc = "as_completed"
    /\ Len(order) = Len(files)
    /\ mpc' = "save"
    /\ UNCHANGED <<folder, console,
                   stats, query, files, poolVars, order, all_matches, handed,
                   result_file, reported, interrupted, exit_code, runs,
                   ghostVars, scanVars>>

\* save_results without the except of line 128: the error of the write
\* reaches the handler of main, which breaks
SaveResultsRaising ==
    /\ mpc = "save"
    /\ handed' = Append(handed, all_matches)
    /\ \E ok \in BOOLEAN :
         /\ result_file' =
               IF all_matches # <<>> /\ ok
               THEN Append(result_file, [name |-> SafeQuery(query), query |-> query,
                                         total |-> Len(all_matches), matches |-> all_matches])
               ELSE result_file
         /\ console' = IF all_matches = <<>> THEN console
                        ELSE IF ok THEN console \cup {"saved"}
                        ELSE console \cup {"save_error"}
    /\ mpc' = IF "save_error" \in console' THEN "exit_prompt" ELSE "summary"
    /\ UNCHANGED <<folder,
                   stats, query, files, poolVars, order, all_matches, reported,
                   interrupted, exit_code, runs, ghostVars, scanVars>>

\* save_results(all_matches): nothing for an empty list; otherwise the
\* report is written, or the write raises and the error is printed
SaveResults ==
    /\ mpc = "save"
    /\ handed' = Append(handed, all_matches)
    /\ \E ok \in BOOLEAN :
         /\ result_file' =
               IF all_matches # <<>> /\ ok
               THEN Append(result_file, [name |-> SafeQuery(query), query |-> query,
                                         total |-> Len(all_matches), matches |-> all_matches])
               ELSE result_file
         /\ console' = IF all_matches = <<>> THEN console
                        ELSE IF ok THEN console \cup {"saved"}
                        ELSE console \cup {"save_error"}
    /\ mpc' = "summary"
    /\ UNCHANGED <<folder,
                   stats, query, files, poolVars, order, all_matches, reported,
                   interrupted, exit_code, runs, ghostVars, scanVars>>

\* line 170-176: the statistics summary
PrintSummary ==
    /\ mpc = "summary"
    /\ reported' = Append(reported, [processed |-> stats.files_processed, of |-> Len(files),
                                     matches |-> stats.matches_found, errors |-> stats.errors])
    /\ mpc' = "continue_prompt"
    /\ UNCHANGED <<folder, console,
                   stats, query, files, poolVars, order, all_matches, handed,
                   result_file, interrupted, exit_code, runs, ghostVars, scanVars>>

\* main line 220: another run on 'y', otherwise the loop ends
InputContinue ==
    /\ mpc = "continue_prompt"
    /\ \E answer \in {"y", "n"} :
         IF answer = "y" THEN runs < MaxRuns /\ mpc' = "folder_prompt"
         ELSE mpc' = "exit_prompt"
    /\ UNCHANGED <<folder, console,
                   stats, query, files, poolVars, order, all_matches, handed,
                   result_file, reported, interrupted, exit_code, runs,
                   ghostVars, scanVars>>

\* KeyboardInterrupt raised in the main thread.  Inside the with block the
\* executor's __exit__ runs shutdown(wait=True) before the exception leaves
\* run_search; elsewhere, and when it interrupts the join of that shutdown,
\* it reaches the handler of main at once (the locals of run_search are
\* dropped, main prints the notice and breaks).
Interrupt ==
    /\ mpc \in InPool \cup {"folder_prompt", "query_prompt", "save", "summary",
                            "continue_prompt", "shutdown"}
    /\ interrupted' = TRUE
    /\ mpc' = IF mpc \in InPool THEN "shutdown" ELSE "exit_prompt"
    /\ at_interrupt' = Append(at_interrupt,
                              [at |-> mpc, all_matches |-> all_matches, stats |-> stats])
    /\ all_matches' = IF mpc \in InPool THEN all_matches ELSE <<>>
    /\ console' = IF mpc \in InPool THEN console ELSE console \cup {"interrupted"}
    /\ UNCHANGED <<folder,
                   stats, query, files, poolVars, order, handed,
                   result_file, reported, exit_code, runs, run_base, late,
                   raw_query, scanVars>>

\* shutdown(wait=False): the exception leaves run_search at once
PoolNotAwaited ==
    /\ mpc = "shutdown"
    /\ mpc' = "exit_prompt"
    /\ all_matches' = <<>>
    /\ console' = console \cup {"interrupted"}
    /\ UNCHANGED <<folder,
                   stats, query, files, poolVars, order, handed, result_file,
                   reported, interrupted, exit_code, runs, ghostVars, scanVars>>

\* shutdown(wait=True) returns once every submitted future has run; the
\* KeyboardInterrupt then leaves run_search (its locals are dropped) and
\* main prints the notice and breaks
PoolDrained ==
    /\ mpc = "shutdown"
    /\ \A i \in Tasks : tstate[i] \in {"unsub", "done"}
    /\ mpc' = "exit_prompt"
    /\ all_matches' = <<>>
    /\ console' = console \cup {"interrupted"}
    /\ UNCHANGED <<folder,
                   stats, query, files, poolVars, order, handed, result_file,
                   reported, interrupted, exit_code, runs, ghostVars, scanVars>>

\* main line 230 and the return of main
PressEnter ==
    /\ mpc = "exit_prompt"
    /\ mpc' = "exited"
    /\ exit_code' = 0
    /\ UNCHANGED <<folder, console,
                   stats, query, files, poolVars, order, all_matches, handed,
                   result_file, reported, interrupted, runs, ghostVars, scanVars>>

\* ---------------------------------------------------------- worker threads
\* a pool that starts a thread for every queued work item
StartTaskUnbounded(i) ==
    /\ tstate[i] = "queued"
    /\ \A j \in Tasks : j < i => tstate[j] # "queued"
    /\ tstate' = [tstate EXCEPT ![i] = "running"]
    /\ late' = IF interrupted THEN late \cup {i} ELSE late
    /\ UNCHANGED <<folder, console,
                   mpc, stats, query, files, submitted, tres, tmp, order,
                   all_matches, handed, result_file, reported, interrupted,
                   exit_code, runs, run_base, at_interrupt, raw_query, scanVars>>

\* a pool thread takes the oldest queued work item; at most MAX_WORKERS
\* threads exist
StartTask(i) ==
    /\ tstate[i] = "queued"
    /\ \A j \in Tasks : j < i => tstate[j] # "queued"
    /\ Cardinality(Running) < MAX_WORKERS
    /\ tstate' = [tstate EXCEPT ![i] = "running"]
    /\ late' = IF interrupted THEN late \cup {i} ELSE late
    /\ UNCHANGED <<folder, console,
                   mpc, stats, query, files, submitted, tres, tmp, order,
                   all_matches, handed, result_file, reported, interrupted,
                   exit_code, runs, run_base, at_interrupt, raw_query, scanVars>>

\* search_file line 94-108 up to the load of stats['errors']: a successful
\* scan returns its outcome; a failed one has loaded the counter
ScanTask(i) ==
    /\ tstate[i] = "running"
    /\ LET out == Scanned[files[i].path, query]
       IN IF out.error = ""
          THEN /\ tres' = [tres EXCEPT ![i] = out]
               /\ tstate' = [tstate EXCEPT ![i] = "done"]
               /\ tmp' = tmp
          ELSE /\ tres' = tres
               /\ tstate' = [tstate EXCEPT ![i] = "storing"]
               /\ tmp' = [tmp EXCEPT ![i] = stats.errors]
    /\ UNCHANGED <<folder, console,
                   mpc, stats, query, files, submitted, order, all_matches,
                   handed, result_file, reported, interrupted, exit_code, runs,
                   ghostVars, scanVars>>

\* a worker that also counts the file as processed
StoreErrorsCounting(i) ==
    /\ tstate[i] = "storing"
    /\ stats' = [stats EXCEPT !.errors = tmp[i] + 1, !.files_processed = @ + 1]
    /\ tres' = [tres EXCEPT ![i] = Scanned[files[i].path, query]]
    /\ tstate' = [tstate EXCEPT ![i] = "done"]
    /\ UNCHANGED <<folder, console,
                   mpc, query, files, submitted, tmp, order, all_matches,
                   handed, result_file, reported, interrupted, exit_code, runs,
                   ghostVars, scanVars>>

\* line 106-107: the store of stats['errors'] += 1, then the failure tuple
StoreErrors(i) ==
    /\ tstate[i] = "storing"
    /\ stats' = [stats EXCEPT !.errors = tmp[i] + 1]
    /\ tres' = [tres EXCEPT ![i] = Scanned[files[i].path, query]]
    /\ tstate' = [tstate EXCEPT ![i] = "done"]
    /\ UNCHANGED <<folder, console,
                   mpc, query, files, submitted, tmp, order, all_matches,
                   handed, result_file, reported, interrupted, exit_code, runs,
                   ghostVars, scanVars>>

Next ==
    \/ SetupResultsDir
    \/ InputFolder
    \/ InputQuery
    \/ Submit
    \/ \E i \in Tasks : NextCompleted(i)
    \/ AddMatchesFound
    \/ ExtendAllMatches
    \/ ExitPool
    \/ SaveResults
    \/ PrintSummary
    \/ InputContinue
    \/ Interrupt
    \/ PoolDrained
    \/ PressEnter
    \/ \E i \in Tasks : StartTask(i)
    \/ \E i \in Tasks : ScanTask(i)
    \/ \E i \in Tasks : StoreErrors(i)

Spec == Init /\ [][Next]_vars

\* a step of the main thread that needs no input
MainStep ==
    \/ Submit
    \/ \E i \in Tasks : NextCompleted(i)
    \/ AddMatchesFound
    \/ ExtendAllMatches
    \/ ExitPool
    \/ SaveResults
    \/ PrintSummary
    \/ PoolDrained

\* a step of a pool thread
WorkerStep ==
    \/ \E i \in Tasks : StartTask(i)
    \/ \E i \in Tasks : ScanTask(i)
    \/ \E i \in Tasks : StoreErrors(i)

\* the main thread and the pool threads keep running: a thread that can
\* take a step eventually takes one.  The prompts and the interrupt are
\* the user's and are not fair.
Fairness == WF_vars(MainStep) /\ WF_vars(WorkerStep)

FairSpec == Spec /\ Fairness

\* ---------------------------------------------------------- scanner alone
\* search_file applied to one file and one query, both drawn from bounded
\* sets: every byte string up to MaxContentLen, and a match padded on both
\* sides by up to MaxPad bytes
ScanBytes == {"a", "b", " ", "xC3", "xA9"}
ScanChars == {"a", "b", "é"}

SeqsUpTo(S, n) == UNION {[1..k -> S] : k \in 0..n}
Pad(c, k) == [j \in 1..k |-> c]

ScanContents ==
    SeqsUpTo(ScanBytes, MaxContentLen)
      \cup {Pad("x", i) \o <<"a", "b">> \o Pad("y", j) : i \in 0..MaxPad, j \in 0..MaxPad}

ScanQueries == (SeqsUpTo(ScanChars, 2) \ {<<>>}) \cup {<<"x">>, <<"y">>}

ScanInit ==
    /\ EngineInit
    /\ \E c \in ScanContents, q \in ScanQueries, r \in BOOLEAN :
         scan_in = <<[file |-> [path |-> "s.txt", ext |-> ".txt", content |-> c,
                               probe |-> TRUE, readable |-> r, raises_after |-> -1],
                      query |-> q]>>
    /\ scan_out = <<>>

ScanApply ==
    /\ scan_in # <<>>
    /\ scan_out = <<>>
    /\ scan_out' = <<SearchFile(scan_in[1].file, scan_in[1].query)>>
    /\ UNCHANGED <<folder, console,
                   mpc, stats, query, files, poolVars, order, all_matches,
                   handed, result_file, reported, interrupted, exit_code, runs,
                   ghostVars, scan_in>>

ScanNext == ScanApply

ScanSpec == ScanInit /\ [][ScanNext]_vars

\* ------------------------------------------------- result file name alone
\* the sanitising of line 114 applied to one query: every string of up to
\* MaxNameLen characters over safe and unsafe characters, 'a/b:c', and
\* queries of up to 50 + MaxPad characters
MaxNameLen == 3
NameChars == {"a", " ", "\\", "/", "*", "?", ":", "\"", "<", ">", "|"}

NameQueries ==
    SeqsUpTo(NameChars, MaxNameLen)
      \cup {<<"a", "/", "b", ":", "c">>}
      \cup {Pad("a", i) \o <<"|">> \o Pad("b", j) : i \in 0..(SAFE_QUERY_LEN + MaxPad), j \in 0..2}

NameInit ==
    /\ EngineInit
    /\ \E q \in NameQueries : scan_in = <<[query |-> q]>>
    /\ scan_out = <<>>

NameApply ==
    /\ scan_in # <<>>
    /\ scan_out = <<>>
    /\ scan_out' = <<[safe_query |-> SafeQuery(scan_in[1].query)]>>
    /\ UNCHANGED <<mpc, stats, query, files, poolVars, order, all_matches,
                   handed, result_file, reported, interrupted, exit_code, runs,
                   ghostVars, folder, console, scan_in>>

NameNext == NameApply

NameSpec == NameInit /\ [][NameNext]_vars

\* ================================================================== claims
\* helpers of the claims
Range(f) == {f[k] : k \in DOMAIN f}
RECURSIVE SumOver(_, _)
SumOver(S, f) ==
    IF S = {} THEN 0
    ELSE LET x == CHOOSE y \in S : TRUE IN f[x] + SumOver(S \ {x}, f)
Failed == {i \in Tasks : tres[i].error # ""}
MatchCount == [i \in Tasks |-> Len(tres[i].matches)]
ScanComplete == mpc \in {"save", "summary"}

\* the scanner harness has applied search_file
ScanDone == scan_in # <<>> /\ scan_out # <<>>
ScanContent == scan_in[1].file.content
ScanPattern == Encode(scan_in[1].query)
ScanPositions == [k \in DOMAIN scan_out[1].matches |-> scan_out[1].matches[k].position]
\* the bytes of the pattern stand at offset i of the content
Occurs(mm, pat, i) ==
    /\ i \in 0..(Len(mm) - Len(pat))
    /\ \A k \in 1..Len(pat) : mm[i + k] = pat[k]

\* C4: for a readable file and a non-empty query the positions returned by
\* search_file are occurrences of the query's bytes, strictly ascending and
\* at least the byte length of the query apart, and every occurrence that is
\* not returned starts inside a returned match (none is skipped).
C4_NonOverlappingLeftToRight ==
    (ScanDone /\ scan_in[1].file.readable) =>
        LET pos == ScanPositions
            m == Len(ScanPattern)
        IN /\ \A k \in DOMAIN pos : Occurs(ScanContent, ScanPattern, pos[k])
           /\ \A k \in DOMAIN pos : k > 1 =>
                 pos[k] > pos[k - 1] /\ pos[k] - pos[k - 1] >= m
           /\ \A i \in 0..Len(ScanContent) :
                 Occurs(ScanContent, ScanPattern, i) =>
                    \/ \E k \in DOMAIN pos : pos[k] = i
                    \/ \E k \in DOMAIN pos : pos[k] < i /\ i < pos[k] + m

\* query 'aa' in 'aaa' gives the single match at 0
C4_Witness ==
    /\ ScanDone
    /\ ScanContent = <<"a", "a", "a">>
    /\ scan_in[1].query = <<"a", "a">>
    /\ ScanPositions = <<0>>

\* C9: the context of a match at offset s with end e in a file of n bytes
\* is the (decoded, stripped) bytes [max(0, s-50), min(n, e+50)): it starts
\* at 0 for s = 0, ends at n for e = n, and holds at most 50 bytes on each
\* side of the match.
C9_ContextWindowClipped ==
    ScanDone =>
        \A k \in DOMAIN scan_out[1].matches :
            LET mm == ScanContent
                n == Len(mm)
                s == scan_out[1].matches[k].position
                e == s + Len(ScanPattern)
                before == IF s < 50 THEN s ELSE 50
                after == IF n - e < 50 THEN n - e ELSE 50
                bytes == [j \in 1..(before + (e - s) + after) |-> mm[s - before + j]]
            IN /\ scan_out[1].matches[k].context = Strip(Decode(bytes))
               /\ Len(scan_out[1].matches[k].context) <= 50 + (e - s) + 50

\* one scan with a match at offset 0 and a match more than 50 bytes away from
\* both ends of the file
C9_Witness ==
    /\ ScanDone
    /\ \E k \in DOMAIN ScanPositions : ScanPositions[k] = 0
    /\ \E k \in DOMAIN ScanPositions :
          /\ ScanPositions[k] > 50
          /\ ScanPositions[k] + Len(ScanPattern) + 50 < Len(ScanContent)
    /\ \E k \in DOMAIN scan_out[1].matches :
          Len(scan_out[1].matches[k].context) = 50 + Len(ScanPattern) + 50

\* C1: files_processed never exceeds the number of targets of the run
\* during the scan and equals it when the scan is complete, in every run of
\* the engine.
C1_FilesProcessedIsTargetCount ==
    /\ mpc \in InPool \cup {"shutdown"} => stats.files_processed <= Len(files)
    /\ ScanComplete => stats.files_processed = Len(files)

\* C2: when the scan of a run is complete, errors has grown by the number
\* of search_file calls of the run that returned a failure.
C2_NoLostErrorUpdate ==
    ScanComplete => stats.errors - run_base.errors = Cardinality(Failed)

\* C3: at the summary of every run matches_found is the sum of the match
\* counts of the run's outcomes and the length of the list handed to
\* save_results.
C3_MatchesFoundIsRunTotal ==
    mpc = "summary" =>
        /\ stats.matches_found = SumOver(Tasks, MatchCount)
        /\ stats.matches_found = Len(handed[1])

\* the run on a.txt, b.TXT and the unreadable c.txt with the query foo
FooScenario ==
    /\ [k \in DOMAIN files |-> files[k].path] = <<"a.txt", "b.TXT", "c.txt">>
    /\ query = <<"f", "o", "o">>

\* C5: a run with failing files completes; each failing file adds one to
\* errors and to files_processed and nothing to matches_found or the match
\* list, every other file contributes all its matches; on a fresh engine the
\* foo scenario ends with 3 files processed, the 2 matches at 0 and 8 of
\* a.txt and 1 error.
C5_FailuresAreIsolated ==
    mpc = "summary" =>
        /\ stats.errors - run_base.errors = Cardinality(Failed)
        /\ stats.files_processed - run_base.files_processed = Len(files)
        /\ stats.matches_found - run_base.matches_found =
              SumOver(Tasks \ Failed, MatchCount)
        /\ \A i \in Failed : \A k \in DOMAIN all_matches :
              all_matches[k].file # files[i].path
        /\ \A i \in Tasks \ Failed :
              SelectSeq(all_matches, LAMBDA r : r.file = files[i].path)
                 = Matches(files[i].path, OnDisk(files[i].path).content, Encode(query))
        /\ (FooScenario /\ runs = 1) =>
              /\ stats.files_processed = 3
              /\ stats.matches_found = 2
              /\ stats.errors = 1
              /\ [k \in DOMAIN all_matches |->
                    <<all_matches[k].file, all_matches[k].position>>]
                   = <<(<<"a.txt", 0>>), (<<"a.txt", 8>>)>>

\* C6: after an interrupt raised while run_search consumes completions, the
\* matches aggregated so far have been handed to save_results or written to
\* a result file, or the counters have been reported, when main ends.
C6_PartialSnapshotKept ==
    (/\ mpc \in {"exit_prompt", "exited"}
     /\ at_interrupt # <<>>
     /\ at_interrupt[1].at \in {"as_completed", "l164", "l166"}
     /\ at_interrupt[1].all_matches # <<>>) =>
        \/ \E k \in DOMAIN handed : handed[k] = at_interrupt[1].all_matches
        \/ \E k \in DOMAIN result_file :
              result_file[k].matches = at_interrupt[1].all_matches
        \/ reported # <<>>

\* C7: no scan task that had not started when the interrupt was raised
\* starts afterwards.
C7_NoTaskStartsAfterInterrupt == late = {}

\* the main thread applies an outcome (a step of the aggregation loop)
AggregationStep ==
    \/ order' # order
    \/ all_matches' # all_matches
    \/ stats'.files_processed # stats.files_processed
    \/ stats'.matches_found # stats.matches_found

\* C8: whatever the completion order, the aggregation of a run's outcomes
\* adds the sum of their match counts to matches_found, collects exactly the
\* multiset of their match records, keeps each file's matches in its
\* position-ascending order, and never changes errors.
C8_CompletionOrderIrrelevant ==
    /\ [](ScanComplete =>
            /\ stats.matches_found - run_base.matches_found = SumOver(Tasks, MatchCount)
            /\ \A r \in UNION {Range(tres[i].matches) : i \in Tasks} \cup Range(all_matches) :
                  Cardinality({k \in DOMAIN all_matches : all_matches[k] = r})
                    = SumOver(Tasks, [i \in Tasks |->
                         Cardinality({k \in DOMAIN tres[i].matches : tres[i].matches[k] = r})])
            /\ \A i \in Tasks :
                  SelectSeq(all_matches, LAMBDA r : r.file = files[i].path) = tres[i].matches
            /\ \A j, k \in DOMAIN all_matches :
                  (j < k /\ all_matches[j].file = all_matches[k].file) =>
                     all_matches[j].position < all_matches[k].position)
    /\ [][AggregationStep => stats'.errors = stats.errors]_vars

\* a complete run whose completions arrived out of submission order and in
\* which two files had matches
C8_Witness ==
    /\ mpc = "summary"
    /\ \E j \in DOMAIN order : j > 1 /\ order[j] < order[j - 1]
    /\ Cardinality({i \in Tasks : tres[i].matches # <<>>}) >= 2
    /\ Failed # {}

\* the query typed in this run is empty or only whitespace
BlankQueryTyped ==
    /\ raw_query # <<>>
    /\ \A k \in DOMAIN raw_query[1] : raw_query[1][k] \in {" ", "\t", "\n"}

\* C10: after an empty or whitespace-only query no task is submitted or
\* run, save_results is not called, no result file is written, and
\* files_processed, matches_found and errors are those of the run's start.
C10_BlankQueryDoesNothing ==
    BlankQueryTyped =>
        /\ mpc \in {"continue_prompt", "folder_prompt", "exit_prompt", "exited"}
        /\ submitted = 0
        /\ \A i \in Tasks : tstate[i] = "unsub"
        /\ all_matches = <<>>
        /\ handed = <<>>
        /\ result_file = <<>>
        /\ stats.files_processed = run_base.files_processed
        /\ stats.matches_found = run_base.matches_found
        /\ stats.errors = run_base.errors

\* a run that ended on a whitespace-only query, on an engine whose earlier
\* run had counted files, matches and errors
C10_Witness ==
    /\ BlankQueryTyped
    /\ raw_query[1] # <<>>
    /\ mpc = "continue_prompt"
    /\ files # <<>>
    /\ stats.files_processed > 0
    /\ stats.matches_found > 0
    /\ stats.errors > 0

\* the current run found no target
NoTargetRun == runs >= 1 /\ files = <<>>

\* C11: when get_folder_stats returns no target, run_search prints the
\* 'no files' notice and returns: no future exists, no task runs, the query
\* prompt is never reached (self.query keeps its value) and
\* files_processed, matches_found and errors are those of the run's start.
C11_NoTargetsReturnsAtOnce ==
    /\ [](NoTargetRun =>
            /\ "no_files" \in console
            /\ mpc \in {"continue_prompt", "folder_prompt", "exit_prompt", "exited"}
            /\ Tasks = {}
            /\ submitted = 0
            /\ raw_query = <<>>
            /\ handed = <<>>
            /\ reported = <<>>
            /\ stats.files_processed = run_base.files_processed
            /\ stats.matches_found = run_base.matches_found
            /\ stats.errors = run_base.errors)
    /\ [][(runs' # runs /\ files' = <<>>) => query' = query]_vars

\* a second run that found no target, on an engine whose first run had
\* counted files, matches and errors and had set a query
C11_Witness ==
    /\ NoTargetRun
    /\ runs = 2
    /\ mpc = "continue_prompt"
    /\ query # <<>>
    /\ stats.files_processed > 0
    /\ stats.matches_found > 0
    /\ stats.errors > 0

\* for every CPU count the worker count is twice the count or 32,
\* whichever is smaller
WorkerCountCapped ==
    \A c \in 1..MaxCpus :
       /\ MaxWorkersFor(c) <= 32
       /\ MaxWorkersFor(c) <= 2 * c
       /\ MaxWorkersFor(c) = 32 \/ MaxWorkersFor(c) = 2 * c

\* C12: at most MAX_WORKERS search_file tasks execute at any moment, and
\* MAX_WORKERS is min(2 x cpu_count, 32): for every CPU count it is twice
\* the count or 32, whichever is smaller, hence never above 32.
C12_WorkersBounded ==
    /\ Cardinality(Running) <= MAX_WORKERS
    /\ MAX_WORKERS <= 32
    /\ (2 * CpuCount <= 32 => MAX_WORKERS = 2 * CpuCount)
    /\ WorkerCountCapped

\* the pool is full while a submitted task waits in the queue
C12_Witness ==
    /\ Cardinality(Running) = MAX_WORKERS
    /\ \E i \in Tasks : tstate[i] = "queued"

NameDone == scan_in # <<>> /\ scan_out # <<>>

\* C14: the query-derived part of the result file name holds none of
\* \ / * ? : " < > | and at most 50 characters: it is the first 50
\* characters of the query with each of those replaced by an underscore
\* ('a/b:c' gives 'a_b_c').
C14_SafeQueryIsSafe ==
    NameDone =>
        LET q == scan_in[1].query
            n == scan_out[1].safe_query
            unsafe == {"\\", "/", "*", "?", ":", "\"", "<", ">", "|"}
        IN /\ \A k \in DOMAIN n : n[k] \notin unsafe
           /\ Len(n) <= 50
           /\ Len(n) = IF Len(q) < 50 THEN Len(q) ELSE 50
           /\ \A k \in DOMAIN n : n[k] = IF q[k] \in unsafe THEN "_" ELSE q[k]
           /\ q = <<"a", "/", "b", ":", "c">> => n = <<"a", "_", "b", "_", "c">>

C14_Witness ==
    /\ NameDone
    /\ scan_in[1].query = <<"a", "/", "b", ":", "c">>
    /\ scan_out[1].safe_query = <<"a", "_", "b", "_", "c">>

\* C15: under fair scheduling of the main and pool threads, a run that
\* starts submitting its targets reaches its statistics summary (with the
\* error count, for the run's targets) unless an interrupt is raised.
C15_RunReachesSummary ==
    (mpc = "submit") ~>
        \/ interrupted
        \/ /\ reported # <<>>
           /\ reported[1].of = Len(files)
           /\ reported[1].errors = stats.errors

\* a summary printed after a run in which files failed and the result file
\* could not be written
C15_Witness ==
    /\ reported # <<>>
    /\ ~interrupted
    /\ Failed # {}
    /\ "save_error" \in console

\* C16: a finished search_file call has returned a failure exactly when the
\* open or a read of its file failed; every file that can be opened and
\* read, also one of 0 bytes, gives a success outcome.
C16_FailureOnlyWhenUnreadable ==
    \A i \in Tasks :
        tstate[i] = "done" =>
            LET f == OnDisk(files[i].path)
            IN tres[i].error # "" <=> (~f.readable \/ RaisesMidScan(f, query))

\* a read of the file raised after some of its matches had been appended
FailedMidScan(i) ==
    /\ RaisesMidScan(OnDisk(files[i].path), query)
    /\ Appended(OnDisk(files[i].path), query) # <<>>

\* C17: every target gives one outcome (path, matches, error): the
\* aggregation loop is handed no future twice and, when the scan is
\* complete, every target exactly once; an outcome with matches carries no
\* error, and a scan that fails after matches were found returns the error
\* with no match.
C17_OneOutcomeNeverBoth ==
    /\ \A j, k \in DOMAIN order : j # k => order[j] # order[k]
    /\ Consumed \subseteq {i \in Tasks : tstate[i] = "done"}
    /\ ScanComplete => Consumed = 1..Len(files)
    /\ \A i \in Tasks :
          /\ tres[i].path = files[i].path
          /\ tres[i].matches # <<>> => tres[i].error = ""
          /\ (tstate[i] = "done" /\ FailedMidScan(i)) =>
                tres[i].matches = <<>> /\ tres[i].error # ""

\* a complete scan in which a file failed after a match had been appended
C17_Witness ==
    /\ ScanComplete
    /\ \E i \in Tasks : FailedMidScan(i) /\ tres[i].error # ""
    /\ \E i \in Tasks : tres[i].matches # <<>>

\* a file get_folder_stats keeps: the name ends in .txt in any case and its
\* size is known
IsTarget(f) == f.ext \in {".txt", ".TXT"} /\ f.probe
TargetsOf(dir) == SelectSeq(Walk(dir), IsTarget)

\* C18: the target list holds, in walk order, exactly the .txt files of the
\* folder whose size probe succeeded (a failed probe leaves out that file
\* only); total_size is the sum of the sizes of the listed targets, whatever
\* it was before the run; a folder without such a file gives the empty list.
C18_FailedProbeIsSkipped ==
    folder # <<>> =>
        LET kept == TargetsOf(folder[1])
        IN /\ Len(files) = Len(kept)
           /\ \A k \in DOMAIN files :
                 /\ files[k].path = kept[k].path
                 /\ files[k].size = Len(kept[k].content)
           /\ stats.total_size = SumOver(DOMAIN files, [k \in DOMAIN files |-> files[k].size])
           /\ (\A k \in DOMAIN Walk(folder[1]) : ~IsTarget(Walk(folder[1])[k])) => files = <<>>

\* a later run on a folder where a size probe fails ahead of files that are
\* listed, after a run that had left a total_size
C18_Witness ==
    /\ runs = 2
    /\ run_base.total_size > 0
    /\ folder = <<"mixed">>
    /\ Len(files) = 3
    /\ stats.total_size = 18

\* a pool thread takes a step of a future
WorkerMoved ==
    /\ DOMAIN tstate' = DOMAIN tstate
    /\ \E i \in Tasks :
          /\ tstate[i] \in {"queued", "running", "storing"}
          /\ tstate'[i] # tstate[i]

\* C19: a step of a pool thread changes none of files_processed,
\* matches_found, all_matches (nor the sequence of consumed futures); these
\* are written at the lines of the as_completed loop only, and the loop
\* takes the next outcome only when the previous one is fully applied.
C19_OnlyMainThreadAggregates ==
    /\ [][WorkerMoved =>
            /\ stats'.files_processed = stats.files_processed
            /\ stats'.matches_found = stats.matches_found
            /\ all_matches' = all_matches
            /\ order' = order
            /\ mpc' = mpc]_vars
    /\ [][stats'.files_processed # stats.files_processed => mpc = "as_completed"]_vars
    /\ [][stats'.matches_found # stats.matches_found => mpc = "l164"]_vars
    /\ [][(all_matches' # all_matches /\ all_matches' # <<>>) => mpc = "l166"]_vars
    /\ [][(order' # order /\ order' # <<>>) => mpc = "as_completed"]_vars

\* the main thread is about to extend all_matches while a pool thread is
\* between the load and the store of the errors counter
C19_Witness ==
    /\ mpc = "l166"
    /\ \E i \in Tasks : tstate[i] = "storing"

\* no future is queued or executing
Quiescent == \A i \in Tasks : tstate[i] \in {"unsub", "done"}

\* the join of shutdown(wait=True) was itself interrupted
WaitInterrupted == \E k \in DOMAIN at_interrupt : at_interrupt[k].at = "shutdown"

\* C20 as claimed: whenever run_search has returned or raised, no scan task
\* is still queued or running.
C20_NoTaskOutlivesRun ==
    mpc \in {"continue_prompt", "folder_prompt", "exit_prompt", "exited"} => Quiescent

\* C20: no scan task is queued or running once run_search has left the
\* executor block normally, or by an interrupt whose wait for the pool was
\* not itself interrupted; a new run starts, and self.query changes, only
\* when no task is in flight.
C20_PoolDrainedUnlessWaitInterrupted ==
    /\ []((mpc \in {"save", "summary", "continue_prompt", "folder_prompt", "query_prompt"}) =>
            Quiescent)
    /\ []((mpc \in {"exit_prompt", "exited"} /\ ~WaitInterrupted) => Quiescent)
    /\ [][runs' # runs => Quiescent]_vars
    /\ [][query' # query => Quiescent]_vars

\* run_search was left by an interrupt after the pool had run a task that
\* was still queued when the interrupt was raised
C20_Witness ==
    /\ mpc = "exit_prompt"
    /\ Len(at_interrupt) = 1
    /\ at_interrupt[1].at \in InPool
    /\ late # {}
    /\ Quiescent
    /\ \E i \in Tasks : tstate[i] = "done"

====
